---------------------------- MODULE Spec2Model ----------------------------
(***************************************************************************)
(* Chain-of-custody ledger of the Quit-OS product API.                     *)
(*                                                                         *)
(* The handlers of server.js run their SQL statements on a pooled          *)
(* connection between BEGIN and COMMIT/ROLLBACK.  No handler sets an       *)
(* isolation level and no SELECT says FOR UPDATE, so every transaction     *)
(* runs at PostgreSQL's default READ COMMITTED: a SELECT reads the rows    *)
(* committed at the moment it runs (plus the transaction's own writes), an *)
(* UPDATE or an upsert takes the row's lock, waits for the transaction     *)
(* holding it, and then works on the newest committed version of the row.  *)
(* CHECK, UNIQUE and FOREIGN KEY constraints of the schema are evaluated   *)
(* by the statement that writes the row; a violation raises an error,      *)
(* which the handlers' catch blocks turn into ROLLBACK and a 500.          *)
(*                                                                         *)
(* Each connection is a process; its transaction keeps its uncommitted     *)
(* writes in the w* fields until COMMIT installs them.                     *)
(***************************************************************************)
EXTENDS Integers, Sequences, FiniteSets, TLC

\* ------------------------------------------------------------ bounds
MaxConns == 2        \* connections handling requests at the same time
MaxRequests == 2     \* requests served in one behaviour
MaxBatches == 1      \* values drawn from product_batches_id_seq
MaxQty == 2          \* largest quantity in a request
MaxItems == 2        \* line items in one purchase

Conns == 1..MaxConns
BatchIds == 1..MaxBatches

\* ------------------------------------------------------------ inputs
Today == 2
DatePairs == {<<1, 3>>, <<0, 1>>, <<2, 1>>, <<1, 1>>}   \* <<manufacture_date, expiry_date>>
BatchNumbers == {"LOT-A"}
TracedNumbers == BatchNumbers \cup {"LOT-B", "LOT-X"}     \* LOT-X: no such batch
ProducedQuantities == {0, MaxQty}
Quantities == (-1)..MaxQty
Prices == {0, 1, 2}
UnitPrices == {1}

\* Rows the handlers only read: they are written by the WordPress side.
manufacturers == {[id |-> 1, wp_user_id |-> 101], [id |-> 2, wp_user_id |-> 102]}
retailers == {[id |-> 1, wp_user_id |-> 201], [id |-> 2, wp_user_id |-> 202]}
ManufacturerUsers == {101, 102}          \* 102: a manufacturer that owns no product
RetailerUsers == {201, 202, 203}     \* 203: a retailer user with no retailers row
RetailerIds == {1, 2, 9}             \* 9: no such retailer
ProductIds == {1}
MaxProducts == 2
product_categories == {1}
CategoryIds == {1, 9}
Skus == {"SKU-1", "SKU-2"}
ConsumerUsers == {0, 301}            \* 0: wp_user_id absent from the body
\* wp_user_id -> user_type; the body's 301 is the id of no user
wp_user_mapping ==
    [u \in ManufacturerUsers \cup RetailerUsers |->
        IF u \in ManufacturerUsers THEN "manufacturer" ELSE "retailer"]

\* Authorization headers.  A token is what jwt.verify sees: the user_id of its payload
\* and the key it was signed with; 999 is the id of no user.
NoToken == [user_id |-> 0, signed_with |-> "nothing"]
SignedTokens(users) == [user_id : users, signed_with : {"WP_JWT_SECRET"}]
BadTokens == {NoToken, [user_id |-> 201, signed_with |-> "another key"],
              [user_id |-> 999, signed_with |-> "WP_JWT_SECRET"]}
BatchTokens == SignedTokens(ManufacturerUsers) \cup BadTokens
InventoryTokens == SignedTokens(RetailerUsers \cup {101}) \cup BadTokens
\* POST /api/purchase is registered without the middleware and its handler never reads
\* the Authorization header: the request that carries none stands for all of them
PurchaseTokens == {NoToken}

\* the middleware without jwt.verify
TrustPayload(token) ==
    IF token = NoToken THEN [status |-> 401, error |-> "No token provided"]
    ELSE IF token.user_id \notin DOMAIN wp_user_mapping
    THEN [status |-> 401, error |-> "User not found"]
    ELSE [status |-> 200, error |-> "", id |-> token.user_id,
          type |-> wp_user_mapping[token.user_id]]

\* the middleware: 401, or req.user = {id, type} and next()
authenticateWPUser(token) ==
    IF token = NoToken THEN [status |-> 401, error |-> "No token provided"]
    ELSE IF token.signed_with # "WP_JWT_SECRET"
    THEN [status |-> 401, error |-> "Invalid token"]
    ELSE IF token.user_id \notin DOMAIN wp_user_mapping
    THEN [status |-> 401, error |-> "User not found"]
    ELSE [status |-> 200, error |-> "", id |-> token.user_id,
          type |-> wp_user_mapping[token.user_id]]

VARIABLES
    products,            \* id -> [manufacturer_id, category_id, sku, status]
    product_batches,     \* id -> row
    retailer_inventory,  \* <<retailer_id, product_id, batch_id>> -> row
    product_movements,   \* set of rows
    consumer_purchases,  \* set of rows
    purchase_items,      \* set of rows
    batch_seq,           \* product_batches_id_seq
    movement_seq,        \* product_movements_id_seq
    purchase_seq,        \* consumer_purchases_id_seq
    txn,                 \* connection -> the request it serves and its transaction
    nreq                 \* requests started

tables == <<products, product_batches, retailer_inventory, product_movements,
            consumer_purchases, purchase_items>>
seqs == <<batch_seq, movement_seq, purchase_seq>>
vars == <<tables, seqs, txn, nreq>>

\* ------------------------------------------------------------ schema constraints
quantity_produced_check(quantity_produced) == quantity_produced > 0

\* the column without its CHECK
AnyQuantityAvailable(quantity_available) == TRUE

quantity_available_check(quantity_available) == quantity_available >= 0

\* the table without CONSTRAINT valid_dates
DatesUnchecked(manufacture_date, expiry_date) == TRUE

valid_dates(manufacture_date, expiry_date) == expiry_date > manufacture_date

quantity_in_stock_check(quantity_in_stock) == quantity_in_stock >= 0

quantity_reserved_check(quantity_reserved) == quantity_reserved >= 0

price_check(price) == price > 0

valid_reserved(quantity_reserved, quantity_in_stock) == quantity_reserved <= quantity_in_stock

\* the column without its CHECK
AnyMovementQuantity(quantity) == TRUE

movement_quantity_check(quantity) == quantity > 0

item_quantity_check(quantity) == quantity > 0

\* CHECK constraints of a product_batches row
BatchRowOk(row) ==
    /\ quantity_produced_check(row.quantity_produced)
    /\ quantity_available_check(row.quantity_available)
    /\ valid_dates(row.manufacture_date, row.expiry_date)

\* the table without its quantity CHECKs
InventoryRowUnchecked(row) == price_check(row.price)

\* CHECK constraints of a retailer_inventory row
InventoryRowOk(row) ==
    /\ quantity_in_stock_check(row.quantity_in_stock)
    /\ quantity_reserved_check(row.quantity_reserved)
    /\ price_check(row.price)
    /\ valid_reserved(row.quantity_reserved, row.quantity_in_stock)

\* ------------------------------------------------------------ rows
NoPrice == 0 - 1     \* unit_price left NULL

Movement(id, movement_type, product_id, batch_id, from_entity_type, from_entity_id, to_entity_type, to_entity_id, quantity, unit_price, created_at) ==
    [id |-> id, movement_type |-> movement_type, product_id |-> product_id,
     batch_id |-> batch_id, from_entity_type |-> from_entity_type,
     from_entity_id |-> from_entity_id, to_entity_type |-> to_entity_type,
     to_entity_id |-> to_entity_id, quantity |-> quantity, unit_price |-> unit_price,
     created_at |-> created_at]

\* the column left out of the INSERT
InitialAvailableNone(quantity_produced) == 0

\* quantity_available of a new batch: "Initially all available"
InitialAvailable(quantity_produced) == quantity_produced

\* ------------------------------------------------------------ transactions
Idle == [pc |-> "idle", kind |-> "none", req |-> <<>>, open |-> FALSE, start |-> 0,
         seen |-> -1, idx |-> 0, wBatches |-> <<>>, wQa |-> <<>>, wInv |-> <<>>,
         wMovs |-> <<>>, wPurchases |-> {}, wItems |-> {}, status |-> 0, error |-> "",
         result |-> <<>>]

\* the handler that answers 500 although its COMMIT went through
RespondError(request, status, error) ==
    [request EXCEPT !.pc = "done", !.status = 500, !.error = "Internal error",
                    !.open = FALSE,
                    !.wBatches = <<>>, !.wQa = <<>>, !.wInv = <<>>, !.wMovs = <<>>,
                    !.wPurchases = {}, !.wItems = {}]

\* res.json / res.status(...).json, after COMMIT or ROLLBACK: the writes of a
\* transaction that did not commit are gone
Respond(request, status, error) ==
    [request EXCEPT !.pc = "done", !.status = status, !.error = error, !.open = FALSE,
                    !.wBatches = <<>>, !.wQa = <<>>, !.wInv = <<>>, !.wMovs = <<>>,
                    !.wPurchases = {}, !.wItems = {}]

\* the response of a handler that threw: catch { ROLLBACK }, res.status(500)
Failed(t, message) == Respond(txn[t], 500, message)

\* the response of a handler that returns between BEGIN and COMMIT: finally releases
\* the connection to the pool with its transaction open
Released(request, status, error) ==
    [Respond(request, status, error) EXCEPT !.open = TRUE]

Active(t) == txn[t].pc \notin {"idle", "done"}

\* row locks held by an open transaction: the rows it has written
HoldsBatch(t, b) == Active(t) /\ b \in DOMAIN txn[t].wQa
HoldsInventory(t, k) == Active(t) /\ k \in DOMAIN txn[t].wInv
HoldsBatchKey(t, p, n) ==
    Active(t) /\ \E b \in DOMAIN txn[t].wBatches :
        txn[t].wBatches[b].product_id = p /\ txn[t].wBatches[b].batch_number = n

\* The ledger at the start of a behaviour: empty, as setup-database.js leaves it,
\* or as earlier requests, served one after the other at the times <= 0, left it:
\* one batch manufactured (Manufactured), part of it shipped to retailer 1 (Shipped).
\* product 1, created by manufacturer 1 and released for sale
SeedProduct ==
    [manufacturer_id |-> 1, category_id |-> 1, sku |-> "SKU-1", status |-> "active"]

SeedBatch(quantity_available) ==
    [product_id |-> 1, batch_number |-> "LOT-A", manufacture_date |-> 1,
     expiry_date |-> 3, quantity_produced |-> MaxQty,
     quantity_available |-> quantity_available]

SeedManufacture ==
    Movement(1, "manufacture", 1, 1, "manufacturer", 1, "manufacturer", 1, MaxQty,
             NoPrice, 0 - 1)

SeedShipment ==
    Movement(2, "ship_to_retailer", 1, 1, "manufacturer", 1, "retailer", 1, 1, 1, 0)

Empty ==
    /\ product_batches = <<>>
    /\ retailer_inventory = <<>>
    /\ product_movements = {}
    /\ batch_seq = 0
    /\ movement_seq = 0

Manufactured ==
    /\ product_batches = (1 :> SeedBatch(MaxQty))
    /\ retailer_inventory = <<>>
    /\ product_movements = {SeedManufacture}
    /\ batch_seq = 1
    /\ movement_seq = 1

Shipped ==
    /\ product_batches = (1 :> SeedBatch(MaxQty - 1))
    /\ retailer_inventory =
          (<<1, 1, 1>> :> [quantity_in_stock |-> 1, quantity_reserved |-> 0, price |-> 1])
    /\ product_movements = {SeedManufacture, SeedShipment}
    /\ batch_seq = 1
    /\ movement_seq = 2

\* two batches of product 1, LOT-A and LOT-B, each with one unit shipped to retailer 1
SecondBatch ==
    [product_id |-> 1, batch_number |-> "LOT-B", manufacture_date |-> 1,
     expiry_date |-> 3, quantity_produced |-> MaxQty, quantity_available |-> MaxQty - 1]

SecondManufacture ==
    Movement(3, "manufacture", 1, 2, "manufacturer", 1, "manufacturer", 1, MaxQty,
             NoPrice, 0 - 1)

SecondShipment ==
    Movement(4, "ship_to_retailer", 1, 2, "manufacturer", 1, "retailer", 1, 1, 1, 0)

TwoLotsInventory ==
    (<<1, 1, 1>> :> [quantity_in_stock |-> 1, quantity_reserved |-> 0, price |-> 1])
    @@ (<<1, 1, 2>> :> [quantity_in_stock |-> 1, quantity_reserved |-> 0, price |-> 1])

TwoLots ==
    /\ product_batches = (1 :> SeedBatch(MaxQty - 1)) @@ (2 :> SecondBatch)
    /\ retailer_inventory = TwoLotsInventory
    /\ product_movements = {SeedManufacture, SeedShipment, SecondManufacture,
                            SecondShipment}
    /\ batch_seq = 2
    /\ movement_seq = 4

Init ==
    /\ products = (1 :> SeedProduct)
    /\ \/ Empty
       \/ Manufactured
       \/ Shipped
    /\ consumer_purchases = {}
    /\ purchase_items = {}
    /\ purchase_seq = 0
    /\ txn = [t \in Conns |-> Idle]
    /\ nreq = 0

\* a request turned away before its handler asks the pool for a connection: by the
\* middleware (401) or by the handler's test of req.user.type (403)
Denied(t, endpoint, token, status, error) ==
    [Idle EXCEPT !.pc = "done", !.kind = "denied",
                 !.req = [endpoint |-> endpoint, token |-> token],
                 !.open = txn[t].open,
                 !.start = IF txn[t].open THEN txn[t].start ELSE 0,
                 !.status = status, !.error = error]

\* the batch ids requests name: one fixed id, and every id handed out so far
RequestBatchIds == BatchIds \cup (1..batch_seq)

\* the product ids requests name: one fixed id, and every id handed out so far
RequestProductIds == ProductIds \cup DOMAIN products

CanStart(t) == txn[t].pc \in {"idle", "done"} /\ nreq < MaxRequests

\* pool.connect() and BEGIN.  On a connection released with its transaction open,
\* BEGIN only warns and the statements join that transaction, whose start time is
\* what CURRENT_TIMESTAMP keeps returning.
Begin(t, kind, req) ==
    [Idle EXCEPT !.kind = kind, !.req = req, !.open = TRUE,
                 !.start = IF txn[t].open THEN txn[t].start ELSE nreq + 1]

\* ------------------------------------------------------------ POST /api/products/:productId/batches
\* the SELECT without its JOIN on the caller's manufacturer
ProductExists(user, productId) == productId \in DOMAIN products

\* SELECT p.id, p.manufacturer_id FROM products p JOIN manufacturers m ON
\* p.manufacturer_id = m.id WHERE p.id = $1 AND m.wp_user_id = $2 returns a row
OwnsProduct(user, productId) ==
    /\ productId \in DOMAIN products
    /\ \E m \in manufacturers :
          m.id = products[productId].manufacturer_id /\ m.wp_user_id = user

\* BEGIN and the ownership SELECT; no row: 403 without ROLLBACK.
CreateBatchBegin(t) ==
    /\ CanStart(t)
    /\ \E token \in BatchTokens, productId \in RequestProductIds \cup {7},
          batch_number \in BatchNumbers, dates \in DatePairs,
          quantity_produced \in ProducedQuantities :
        LET auth == authenticateWPUser(token)
            user == token.user_id
            req == [token |-> token, user |-> user, productId |-> productId,
                    batch_number |-> batch_number,
                    manufacture_date |-> dates[1], expiry_date |-> dates[2],
                    quantity_produced |-> quantity_produced]
            owned == auth.status = 200 /\ OwnsProduct(user, productId)
        IN /\ txn' = [txn EXCEPT ![t] =
                      IF auth.status # 200
                      THEN Denied(t, "batches", token, auth.status, auth.error)
                      ELSE IF owned
                      THEN [Begin(t, "batch", req) EXCEPT !.pc = "cb_insert"]
                      ELSE Released(Begin(t, "batch", req), 403, "Unauthorized")]
           /\ owned => batch_seq + Cardinality({u \in Conns : txn[u].pc = "cb_insert"})
                           < MaxBatches * Cardinality(DOMAIN products)
    /\ nreq' = nreq + 1
    /\ UNCHANGED <<tables, seqs>>

\* INSERT INTO product_batches and the 'manufacture' movement.  An equal
\* (product_id, batch_number) inserted by an open transaction makes the INSERT wait.
CreateBatchRow(t) ==
    [product_id |-> txn[t].req.productId,
     batch_number |-> txn[t].req.batch_number,
     manufacture_date |-> txn[t].req.manufacture_date,
     expiry_date |-> txn[t].req.expiry_date,
     quantity_produced |-> txn[t].req.quantity_produced,
     quantity_available |-> InitialAvailable(txn[t].req.quantity_produced)]

CreateBatchWaits(t) ==
    /\ txn[t].pc = "cb_insert"
    /\ BatchRowOk(CreateBatchRow(t))
    /\ \E u \in Conns \ {t} :
          HoldsBatchKey(u, txn[t].req.productId, txn[t].req.batch_number)

CreateBatchInsert(t) ==
    /\ txn[t].pc = "cb_insert"
    /\ ~CreateBatchWaits(t)
    /\ LET row == CreateBatchRow(t)
           id == batch_seq + 1
           duplicate == \E b \in DOMAIN product_batches :
                           /\ product_batches[b].product_id = row.product_id
                           /\ product_batches[b].batch_number = row.batch_number
           manufacturer_id == products[row.product_id].manufacturer_id
           movement == Movement(movement_seq + 1, "manufacture", row.product_id, id,
                                "manufacturer", manufacturer_id,
                                "manufacturer", manufacturer_id,
                                row.quantity_produced, NoPrice, txn[t].start)
       IN  /\ batch_seq' = id
           /\ IF BatchRowOk(row) /\ ~duplicate
              THEN /\ movement_seq' = movement_seq + 1
                   /\ txn' = [txn EXCEPT ![t].pc = "commit",
                                         ![t].wBatches = (id :> row),
                                         ![t].wMovs = <<movement>>]
              ELSE /\ movement_seq' = movement_seq
                   /\ txn' = [txn EXCEPT ![t] = Failed(t, "Failed to create batch")]
    /\ UNCHANGED <<tables, purchase_seq, nreq>>

\* ------------------------------------------------------------ POST /api/inventory/add
RetailerOf(user) == {r.id : r \in {x \in retailers : x.wp_user_id = user}}

\* the guard without its comparison
InsufficientBatchMissingOnly(found, quantity_available, quantity) == ~found

\* batchResult.rows.length === 0 || batchResult.rows[0].quantity_available < quantity
InsufficientBatch(found, quantity_available, quantity) ==
    ~found \/ quantity_available < quantity

\* BEGIN, the retailer SELECT and the availability SELECT
InventoryAddBegin(t) ==
    /\ CanStart(t)
    /\ \E token \in InventoryTokens, product_id \in RequestProductIds,
          batch_id \in RequestBatchIds, quantity \in Quantities, price \in Prices :
        LET auth == authenticateWPUser(token)
            user == token.user_id
            req == [token |-> token, user |-> user, product_id |-> product_id,
                    batch_id |-> batch_id, quantity |-> quantity, price |-> price]
            found == /\ batch_id \in DOMAIN product_batches
                     /\ product_batches[batch_id].product_id = product_id
            available == IF found THEN product_batches[batch_id].quantity_available
                         ELSE 0 - 1
            begun == [Begin(t, "ship", req) EXCEPT !.seen = available]
        IN  txn' = [txn EXCEPT ![t] =
                      IF auth.status # 200
                      THEN Denied(t, "inventory", token, auth.status, auth.error)
                      ELSE IF auth.type # "retailer"
                      THEN Denied(t, "inventory", token, 403,
                                  "Only retailers can manage inventory")
                      ELSE IF RetailerOf(user) = {}
                      THEN Respond(Begin(t, "ship", req), 500, "Retailer not found")
                      ELSE IF InsufficientBatch(found, available, quantity)
                      THEN Respond(begun, 500, "Insufficient batch quantity available")
                      ELSE [begun EXCEPT !.pc = "ship_upsert"]]
    /\ nreq' = nreq + 1
    /\ UNCHANGED <<tables, seqs>>

\* the position of the first retailer, whoever calls
ShipKeyOfRetailerOne(t) == <<1, txn[t].req.product_id, txn[t].req.batch_id>>

ShipKey(t) ==
    <<CHOOSE r \in RetailerOf(txn[t].req.user) : TRUE, txn[t].req.product_id,
      txn[t].req.batch_id>>

\* the row the INSERT proposes; its CHECKs are evaluated before the conflict is looked for
ProposedInventory(quantity, price) ==
    [quantity_in_stock |-> quantity, quantity_reserved |-> 0, price |-> price]

\* DO UPDATE without "price = $5"
ConflictUpdateKeepPrice(row, quantity, price) ==
    [row EXCEPT !.quantity_in_stock = @ + quantity]

\* DO UPDATE SET quantity_in_stock = $4: the receipt replaces the stock
ConflictReplaceStock(row, quantity, price) ==
    [row EXCEPT !.quantity_in_stock = quantity, !.price = price]

\* ON CONFLICT ... DO UPDATE SET quantity_in_stock = quantity_in_stock + $4, price = $5
ConflictUpdate(row, quantity, price) ==
    [row EXCEPT !.quantity_in_stock = @ + quantity, !.price = price]

InventoryUpsertWaits(t) ==
    /\ txn[t].pc = "ship_upsert"
    /\ InventoryRowOk(ProposedInventory(txn[t].req.quantity, txn[t].req.price))
    /\ \E u \in Conns \ {t} : HoldsInventory(u, ShipKey(t))

\* INSERT INTO retailer_inventory ... ON CONFLICT DO UPDATE
InventoryUpsert(t) ==
    /\ txn[t].pc = "ship_upsert"
    /\ ~InventoryUpsertWaits(t)
    /\ LET k == ShipKey(t)
           proposed == ProposedInventory(txn[t].req.quantity, txn[t].req.price)
           row == IF k \in DOMAIN retailer_inventory
                  THEN ConflictUpdate(retailer_inventory[k], txn[t].req.quantity,
                                      txn[t].req.price)
                  ELSE proposed
       IN  txn' = [txn EXCEPT ![t] =
                     IF InventoryRowOk(proposed) /\ InventoryRowOk(row)
                     THEN [txn[t] EXCEPT !.pc = "ship_update", !.wInv = (k :> row)]
                     ELSE Failed(t, "violates check constraint")]
    /\ UNCHANGED <<tables, seqs, nreq>>

\* the UPDATE with the sign slipped
IncrementAvailable(quantity_available, quantity) == quantity_available + quantity

\* UPDATE product_batches SET quantity_available = quantity_available - $1
DecrementAvailable(quantity_available, quantity) == quantity_available - quantity

BatchUpdateWaits(t) ==
    /\ txn[t].pc = "ship_update"
    /\ \E u \in Conns \ {t} : HoldsBatch(u, txn[t].req.batch_id)

\* the batch UPDATE, the manufacturer SELECT and the 'ship_to_retailer' movement
BatchUpdate(t) ==
    /\ txn[t].pc = "ship_update"
    /\ ~BatchUpdateWaits(t)
    /\ LET b == txn[t].req.batch_id
           row == [product_batches[b] EXCEPT !.quantity_available =
                      DecrementAvailable(@, txn[t].req.quantity)]
           movement == Movement(movement_seq + 1, "ship_to_retailer",
                                txn[t].req.product_id, b, "manufacturer",
                                products[txn[t].req.product_id].manufacturer_id,
                                "retailer", ShipKey(t)[1], txn[t].req.quantity,
                                txn[t].req.price, txn[t].start)
       IN  IF ~BatchRowOk(row)
           THEN /\ txn' = [txn EXCEPT ![t] = Failed(t, "violates check constraint")]
                /\ UNCHANGED movement_seq
           ELSE /\ movement_seq' = movement_seq + 1
                /\ txn' = [txn EXCEPT ![t] =
                     IF movement_quantity_check(movement.quantity)
                     THEN [txn[t] EXCEPT !.pc = "commit",
                                         !.wQa = (b :> row.quantity_available),
                                         !.wMovs = <<movement>>]
                     ELSE Failed(t, "violates check constraint")]
    /\ UNCHANGED <<tables, batch_seq, purchase_seq, nreq>>

\* ------------------------------------------------------------ POST /api/purchase
Items == [product_id : RequestProductIds, batch_id : RequestBatchIds, quantity : Quantities,
          unit_price : UnitPrices]

ItemLists == UNION {[1..n -> Items] : n \in 0..MaxItems}

RECURSIVE TotalAmount(_)
\* items.reduce((sum, item) => sum + (item.quantity * item.unit_price), 0)
TotalAmount(items) ==
    IF items = <<>> THEN 0
    ELSE TotalAmount(SubSeq(items, 1, Len(items) - 1))
         + items[Len(items)].quantity * items[Len(items)].unit_price

\* BEGIN and INSERT INTO consumer_purchases
PurchaseBegin(t) ==
    /\ CanStart(t)
    /\ \E retailer_id \in RetailerIds, wp_user_id \in ConsumerUsers, items \in ItemLists,
          token \in PurchaseTokens :
        LET req == [retailer_id |-> retailer_id, wp_user_id |-> wp_user_id,
                    items |-> items, token |-> token]
            id == purchase_seq + 1
            row == [id |-> id, wp_user_id |-> wp_user_id, retailer_id |-> retailer_id,
                    total_amount |-> TotalAmount(items)]
            begun == Begin(t, "purchase", req)
        IN  /\ purchase_seq' = id
            /\ txn' = [txn EXCEPT ![t] =
                 IF \E r \in retailers : r.id = retailer_id
                 THEN [begun EXCEPT !.pc = IF items = <<>> THEN "commit" ELSE "pur_item",
                                    !.idx = 1, !.wPurchases = {row}]
                 ELSE Respond(begun, 500, "Failed to process purchase")]
    /\ nreq' = nreq + 1
    /\ UNCHANGED <<tables, batch_seq, movement_seq>>

\* the item the loop is at; req.items holds the items still to be processed
CurrentItem(t) == Head(txn[t].req.items)

ItemKey(t) == <<txn[t].req.retailer_id, CurrentItem(t).product_id, CurrentItem(t).batch_id>>

\* CHECK and FOREIGN KEY constraints of the purchase_items row
PurchaseItemOk(item) ==
    /\ item_quantity_check(item.quantity)
    /\ item.product_id \in DOMAIN products
    /\ item.batch_id \in DOMAIN product_batches

\* SET quantity_in_stock = quantity_in_stock - $1
SellFromStock(row, quantity) == [row EXCEPT !.quantity_in_stock = @ - quantity]

InventoryUpdateWaits(t) ==
    /\ txn[t].pc = "pur_item"
    /\ PurchaseItemOk(CurrentItem(t))
    /\ ItemKey(t) \in DOMAIN retailer_inventory
    /\ \E u \in Conns \ {t} : HoldsInventory(u, ItemKey(t))

\* one pass of "for (const item of items)": the purchase_items INSERT, the
\* retailer_inventory UPDATE and the 'sale_to_consumer' movement
PurchaseItem(t) ==
    /\ txn[t].pc = "pur_item"
    /\ ~InventoryUpdateWaits(t)
    /\ LET item == CurrentItem(t)
           k == ItemKey(t)
           purchaseId == (CHOOSE p \in txn[t].wPurchases : TRUE).id
           line == [purchase_id |-> purchaseId, line |-> txn[t].idx,
                    product_id |-> item.product_id, batch_id |-> item.batch_id,
                    quantity |-> item.quantity, unit_price |-> item.unit_price,
                    total_price |-> item.quantity * item.unit_price]
           matched == k \in DOMAIN txn[t].wInv \/ k \in DOMAIN retailer_inventory
           current == IF k \in DOMAIN txn[t].wInv THEN txn[t].wInv[k]
                      ELSE retailer_inventory[k]
           row == SellFromStock(current, item.quantity)
           movement == Movement(movement_seq + 1, "sale_to_consumer", item.product_id,
                                item.batch_id, "retailer", txn[t].req.retailer_id,
                                "consumer", txn[t].req.wp_user_id, item.quantity,
                                item.unit_price, txn[t].start)
           last == Len(txn[t].req.items) = 1
       IN  IF ~PurchaseItemOk(item) \/ (matched /\ ~InventoryRowOk(row))
           THEN /\ txn' = [txn EXCEPT ![t] = Failed(t, "Failed to process purchase")]
                /\ UNCHANGED movement_seq
           ELSE /\ movement_seq' = movement_seq + 1
                /\ txn' = [txn EXCEPT ![t] =
                     IF movement_quantity_check(movement.quantity)
                     THEN [txn[t] EXCEPT
                             !.pc = IF last THEN "commit" ELSE "pur_item",
                             !.idx = @ + 1,
                             !.req.items = Tail(@),
                             !.wItems = @ \cup {line},
                             !.wInv = IF matched
                                      THEN [x \in DOMAIN @ \cup {k} |->
                                              IF x = k THEN row ELSE @[x]]
                                      ELSE @,
                             !.wMovs = Append(@, movement)]
                     ELSE Failed(t, "Failed to process purchase")]
    /\ UNCHANGED <<tables, batch_seq, purchase_seq, nreq>>

\* ------------------------------------------------------------ GET /api/trace/batch/:batchNumber
RECURSIVE OrderByCreatedAt(_)
\* ORDER BY pm.created_at: the orders in which the sort may return the rows; rows
\* with equal created_at come in whatever order the executor produces
OrderByCreatedAt(rows) ==
    IF rows = {} THEN {<<>>}
    ELSE UNION {{<<m>> \o rest : rest \in OrderByCreatedAt(rows \ {m})} :
                  m \in {x \in rows : \A y \in rows : x.created_at <= y.created_at}}

\* a name column of a row that a LEFT JOIN did not find
NullName == <<"NULL", 0>>

\* CASE WHEN pm.from_entity_type = 'manufacturer' THEN m1.company_name
\*      WHEN pm.from_entity_type = 'retailer' THEN r1.store_name
\*      ELSE 'Consumer #' || pm.from_entity_id END, and the same for to_entity; m1 and
\* r1 are LEFT JOINed on the entity's id
EntityLabel(entity_type, entity_id) ==
    IF entity_type = "manufacturer"
    THEN IF \E m \in manufacturers : m.id = entity_id
         THEN <<"company_name", entity_id>> ELSE NullName
    ELSE IF entity_type = "retailer"
    THEN IF \E r \in retailers : r.id = entity_id
         THEN <<"store_name", entity_id>> ELSE NullName
    ELSE <<"Consumer #", entity_id>>

\* a row of the function's result: the movement with the names of its two parties
HistoryRow(pm) ==
    pm @@ [from_entity |-> EntityLabel(pm.from_entity_type, pm.from_entity_id),
           to_entity |-> EntityLabel(pm.to_entity_type, pm.to_entity_id)]

Labelled(history) == [i \in DOMAIN history |-> HistoryRow(history[i])]

\* the function without its WHERE clause
HistoryOfAllBatches(b) == {Labelled(h) : h \in OrderByCreatedAt(product_movements)}

\* SELECT ... FROM product_movements pm JOIN product_batches pb ON pm.batch_id = pb.id
\* WHERE pb.uuid = batch_uuid ORDER BY pm.created_at
get_batch_history(b) ==
    {Labelled(h) : h \in OrderByCreatedAt({pm \in product_movements :
                        pm.batch_id = b /\ b \in DOMAIN product_batches})}

\* pool.query of the batch and of its history: no BEGIN, a transaction left open on
\* the connection stays open
Query(t, req) ==
    [Idle EXCEPT !.pc = "done", !.kind = "trace", !.req = req, !.open = txn[t].open,
                 !.start = IF txn[t].open THEN txn[t].start ELSE 0]

Trace(t) ==
    /\ CanStart(t)
    /\ \E batchNumber \in TracedNumbers :
        LET req == [batchNumber |-> batchNumber]
            rows == {b \in DOMAIN product_batches :
                       product_batches[b].batch_number = batchNumber}
        IN  IF rows = {}
            THEN txn' = [txn EXCEPT ![t] =
                           [Query(t, req) EXCEPT !.status = 404,
                                                 !.error = "Batch not found"]]
            ELSE \E batch \in rows : \E history \in get_batch_history(batch) :
                    txn' = [txn EXCEPT ![t] =
                              [Query(t, req) EXCEPT !.status = 200,
                                                    !.result = history]]
    /\ nreq' = nreq + 1
    /\ UNCHANGED <<tables, seqs>>

\* ------------------------------------------------------------ COMMIT
\* the UPDATE with quantity_produced in its SET list too
SetAvailableAndProduced(row, quantity_available) ==
    [row EXCEPT !.quantity_available = quantity_available,
                !.quantity_produced = quantity_available]

\* UPDATE product_batches SET quantity_available = ...: the one column the UPDATE names
SetAvailable(row, quantity_available) ==
    [row EXCEPT !.quantity_available = quantity_available]

\* the log with its earlier rows dropped
ReplaceMovements(log, rows) == rows

\* INSERT INTO product_movements: the only statement on the table, it adds rows
AppendMovements(log, rows) == log \cup rows

Range(s) == {s[i] : i \in DOMAIN s}

Commit(t) ==
    /\ txn[t].pc = "commit"
    /\ product_batches' =
          [b \in DOMAIN product_batches \cup DOMAIN txn[t].wBatches |->
             IF b \in DOMAIN txn[t].wBatches THEN txn[t].wBatches[b]
             ELSE IF b \in DOMAIN txn[t].wQa
                  THEN SetAvailable(product_batches[b], txn[t].wQa[b])
                  ELSE product_batches[b]]
    /\ retailer_inventory' =
          [k \in DOMAIN retailer_inventory \cup DOMAIN txn[t].wInv |->
             IF k \in DOMAIN txn[t].wInv THEN txn[t].wInv[k] ELSE retailer_inventory[k]]
    /\ product_movements' = AppendMovements(product_movements, Range(txn[t].wMovs))
    /\ consumer_purchases' = consumer_purchases \cup txn[t].wPurchases
    /\ purchase_items' = purchase_items \cup txn[t].wItems
    /\ txn' = [txn EXCEPT ![t] = Respond(txn[t], 200, "")]
    /\ UNCHANGED <<products, seqs, nreq>>

Next ==
    \E t \in Conns :
        \/ CreateBatchBegin(t)
        \/ CreateBatchInsert(t)
        \/ InventoryAddBegin(t)
        \/ InventoryUpsert(t)
        \/ BatchUpdate(t)
        \/ PurchaseBegin(t)
        \/ PurchaseItem(t)
        \/ Trace(t)
        \/ Commit(t)

Spec == Init /\ [][Next]_vars

\* ------------------------------------------------------------ two lots, lock cycles
\* t waits for a row lock that u holds
WaitsFor(t, u) ==
    \/ InventoryUpdateWaits(t) /\ HoldsInventory(u, ItemKey(t))
    \/ InventoryUpsertWaits(t) /\ HoldsInventory(u, ShipKey(t))
    \/ BatchUpdateWaits(t) /\ HoldsBatch(u, txn[t].req.batch_id)
    \/ CreateBatchWaits(t) /\ HoldsBatchKey(u, txn[t].req.productId, txn[t].req.batch_number)

\* what the catch block of the handler answers for an error of the database
ErrorResponse(kind, message) ==
    IF kind = "ship" THEN message
    ELSE IF kind = "purchase" THEN "Failed to process purchase"
    ELSE "Failed to create batch"

\* PostgreSQL without its deadlock detector
NoDeadlockDetector(t) == FALSE /\ UNCHANGED vars

\* PostgreSQL's deadlock detector: of two transactions that wait for each other, the
\* one whose deadlock_timeout expires first gets "deadlock detected" as the error of
\* its statement; its handler rolls back and answers
DeadlockAbort(t) ==
    /\ \E u \in Conns \ {t} : WaitsFor(t, u) /\ WaitsFor(u, t)
    /\ txn' = [txn EXCEPT ![t] = Failed(t, ErrorResponse(txn[t].kind, "deadlock detected"))]
    /\ UNCHANGED <<tables, seqs, nreq>>

InitTwoLots ==
    /\ products = (1 :> SeedProduct)
    /\ TwoLots
    /\ consumer_purchases = {}
    /\ purchase_items = {}
    /\ purchase_seq = 0
    /\ txn = [t \in Conns |-> Idle]
    /\ nreq = 0

\* the requests served on the two-lot ledger; product_batches_id_seq is past its bound,
\* so no create-batch gets to its INSERT
NextTwoLots ==
    \E t \in Conns :
        \/ CreateBatchBegin(t)
        \/ InventoryAddBegin(t)
        \/ InventoryUpsert(t)
        \/ BatchUpdate(t)
        \/ PurchaseBegin(t)
        \/ PurchaseItem(t)
        \/ DeadlockAbort(t)
        \/ Trace(t)
        \/ Commit(t)

SpecTwoLots == InitTwoLots /\ [][NextTwoLots]_vars

\* ------------------------------------------------------------ purchases on two lots
\* a purchase from retailer 1, who holds the two positions, of one or two items with
\* positive quantities
PurchaseFromStock(t) ==
    /\ PurchaseBegin(t)
    /\ txn'[t].req.retailer_id = 1
    /\ txn'[t].req.wp_user_id = 301
    /\ txn'[t].req.items # <<>>
    /\ \A i \in DOMAIN txn'[t].req.items : txn'[t].req.items[i].quantity > 0

\* the purchases served on the two-lot ledger
NextPurchases ==
    \E t \in Conns :
        \/ PurchaseFromStock(t)
        \/ PurchaseItem(t)
        \/ DeadlockAbort(t)
        \/ Commit(t)

\* what the server and the database do for a request once it has begun: the handler's
\* next statement runs when it does not wait for a lock, and the deadlock detector
\* runs when deadlock_timeout has passed
Serve(t) == PurchaseItem(t) \/ DeadlockAbort(t) \/ Commit(t)

SpecPurchases ==
    InitTwoLots /\ [][NextPurchases]_vars /\ \A t \in Conns : WF_vars(Serve(t))

\* ------------------------------------------------------------ a deleted party
\* The retailers table is maintained outside server.js.  Retailer 3 received one unit
\* of LOT-A and its row was deleted afterwards: ON DELETE CASCADE removed its
\* position, product_movements has no foreign key on its parties and keeps the row.
DeletedRetailerShipment ==
    Movement(2, "ship_to_retailer", 1, 1, "manufacturer", 1, "retailer", 3, 1, 1, 0)

RetailerDeleted ==
    /\ product_batches = (1 :> SeedBatch(MaxQty - 1))
    /\ retailer_inventory = <<>>
    /\ product_movements = {SeedManufacture, DeletedRetailerShipment}
    /\ batch_seq = 1
    /\ movement_seq = 2

InitRetailerDeleted ==
    /\ products = (1 :> SeedProduct)
    /\ RetailerDeleted
    /\ consumer_purchases = {}
    /\ purchase_items = {}
    /\ purchase_seq = 0
    /\ txn = [t \in Conns |-> Idle]
    /\ nreq = 0

\* the requests served after the deletion; product_batches_id_seq is at its bound
NextRetailerDeleted ==
    \E t \in Conns :
        \/ CreateBatchBegin(t)
        \/ InventoryAddBegin(t)
        \/ InventoryUpsert(t)
        \/ BatchUpdate(t)
        \/ PurchaseBegin(t)
        \/ PurchaseItem(t)
        \/ Trace(t)
        \/ Commit(t)

SpecRetailerDeleted == InitRetailerDeleted /\ [][NextRetailerDeleted]_vars

\* ------------------------------------------------------------ POST /api/products
ProductTokens == SignedTokens({101, 201}) \cup {NoToken}

\* FOREIGN KEY category_id and UNIQUE(manufacturer_id, sku) of a products row
ProductRowOk(row) ==
    /\ row.category_id \in product_categories
    /\ \A p \in DOMAIN products :
          ~(products[p].manufacturer_id = row.manufacturer_id /\ products[p].sku = row.sku)

\* status VARCHAR(20) DEFAULT 'draft': the INSERT of the handler names no status
DefaultStatus == "draft"

\* The whole handler: BEGIN, the manufacturer SELECT, the products INSERT (and the
\* compliance_log INSERT, a table no other request reads), COMMIT.  Its uncommitted
\* row is visible to no other request, so the transaction is one step; id is the
\* next value of products_id_seq, gaps left by rolled-back INSERTs aside.
CreateProduct(t) ==
    /\ CanStart(t)
    /\ \E token \in ProductTokens, sku \in Skus, category_id \in CategoryIds :
        LET auth == authenticateWPUser(token)
            user == token.user_id
            req == [token |-> token, user |-> user, sku |-> sku,
                    category_id |-> category_id]
            owners == {m.id : m \in {x \in manufacturers : x.wp_user_id = user}}
            id == Cardinality(DOMAIN products) + 1
            row == [manufacturer_id |-> CHOOSE m \in owners : TRUE,
                    category_id |-> category_id, sku |-> sku, status |-> DefaultStatus]
            begun == Begin(t, "product", req)
        IN  IF auth.status # 200
            THEN /\ txn' = [txn EXCEPT ![t] =
                              Denied(t, "products", token, auth.status, auth.error)]
                 /\ UNCHANGED products
            ELSE IF auth.type # "manufacturer"
            THEN /\ txn' = [txn EXCEPT ![t] =
                              Denied(t, "products", token, 403,
                                     "Only manufacturers can add products")]
                 /\ UNCHANGED products
            ELSE IF owners = {} \/ ~ProductRowOk(row)
            THEN /\ txn' = [txn EXCEPT ![t] =
                              Respond(begun, 500, "Failed to create product")]
                 /\ UNCHANGED products
            ELSE /\ id <= MaxProducts
                 /\ products' = products @@ (id :> row)
                 /\ txn' = [txn EXCEPT ![t] =
                              [Respond(begun, 200, "") EXCEPT !.result = <<id>>]]
    /\ nreq' = nreq + 1
    /\ UNCHANGED <<product_batches, retailer_inventory, product_movements,
                   consumer_purchases, purchase_items, seqs>>

\* ------------------------------------------------------------ GET /api/products/available
ListingTokens == SignedTokens({101, 201}) \cup {NoToken}

\* LEFT JOIN product_batches pb ON p.id = pb.product_id AND pb.quantity_available > 0
\* AND pb.expiry_date > CURRENT_DATE
JoinedBatches(p) ==
    {b \in DOMAIN product_batches :
        /\ product_batches[b].product_id = p
        /\ product_batches[b].quantity_available > 0
        /\ product_batches[b].expiry_date > Today}

RECURSIVE SumAvailable(_)
\* SUM(pb.quantity_available)
SumAvailable(bs) ==
    IF bs = {} THEN 0
    ELSE LET b == CHOOSE x \in bs : TRUE
         IN  product_batches[b].quantity_available + SumAvailable(bs \ {b})

\* the ids of the rows of the listing query, with no category and no search filter
available_products ==
    {p \in DOMAIN products :
        /\ \E m \in manufacturers : m.id = products[p].manufacturer_id
        /\ products[p].category_id \in product_categories
        /\ products[p].status = "active"
        /\ SumAvailable(JoinedBatches(p)) > 0}

\* the middleware, the test of req.user.type and one pool.query
ListAvailable(t) ==
    /\ CanStart(t)
    /\ \E token \in ListingTokens :
        LET auth == authenticateWPUser(token)
        IN  txn' = [txn EXCEPT ![t] =
                      IF auth.status # 200
                      THEN Denied(t, "available", token, auth.status, auth.error)
                      ELSE IF auth.type # "retailer"
                      THEN Denied(t, "available", token, 403,
                                  "Only retailers can access this endpoint")
                      ELSE [Query(t, [token |-> token]) EXCEPT
                              !.kind = "list", !.status = 200,
                              !.result = available_products]]
    /\ nreq' = nreq + 1
    /\ UNCHANGED <<tables, seqs>>

\* the catalogue grows: the requests of Next and the two product endpoints
NextCatalog ==
    \E t \in Conns :
        \/ CreateProduct(t)
        \/ ListAvailable(t)
        \/ CreateBatchBegin(t)
        \/ CreateBatchInsert(t)
        \/ InventoryAddBegin(t)
        \/ InventoryUpsert(t)
        \/ BatchUpdate(t)
        \/ PurchaseBegin(t)
        \/ PurchaseItem(t)
        \/ Commit(t)

SpecCatalog == Init /\ [][NextCatalog]_vars

\* ------------------------------------------------------------ setup-database.js
MaxStatements == 3

\* what the database answers to a statement of the schema file
Outcomes == {"ok", "already exists", "error"}

\* the answers to the statements schema.split(';') yields, in their order
StatementOutcomes == UNION {[1..n -> Outcomes] : n \in 1..MaxStatements}

\* console.log / console.error of a line of the report
Report(log, line) == Append(log, line)

\* try { await client.query(statement) } catch (err) { ... }: 'already exists' is
\* passed over, any other error is reported, and the loop goes on in both cases
HandleStatement(request, outcome) ==
    IF outcome = "error"
    THEN [request EXCEPT !.idx = @ + 1, !.result = Report(@, "Error in statement")]
    ELSE [request EXCEPT !.idx = @ + 1]

\* pool.connect() and the three CREATE EXTENSION statements, whose error is not
\* caught inside: catch { 'Setup failed' }, throw, process.exit(1)
SetupBegin(t) ==
    /\ CanStart(t)
    /\ \E extensions \in {"ok", "error"}, statements \in StatementOutcomes :
        LET req == [extensions |-> extensions, statements |-> statements]
            begun == [Idle EXCEPT !.kind = "setup", !.req = req, !.result = <<>>]
        IN  txn' = [txn EXCEPT ![t] =
                      IF extensions = "error"
                      THEN [begun EXCEPT !.pc = "done", !.status = 1,
                                         !.result = Report(@, "Setup failed")]
                      ELSE [begun EXCEPT !.pc = "setup_stmt", !.idx = 1]]
    /\ nreq' = nreq + 1
    /\ UNCHANGED <<tables, seqs>>

\* one pass of "for (let i = 0; i < statements.length; i++)"
SetupStatement(t) ==
    /\ txn[t].pc = "setup_stmt"
    /\ txn[t].idx <= Len(txn[t].req.statements)
    /\ txn' = [txn EXCEPT ![t] =
                 HandleStatement(txn[t], txn[t].req.statements[txn[t].idx])]
    /\ UNCHANGED <<tables, seqs, nreq>>

\* after the loop: 'Schema created successfully', the two verifying SELECTs and
\* 'Database setup completed successfully!'; the script ends with exit code 0
SetupFinish(t) ==
    /\ txn[t].pc = "setup_stmt"
    /\ txn[t].idx > Len(txn[t].req.statements)
    /\ txn' = [txn EXCEPT ![t] =
                 [txn[t] EXCEPT !.pc = "done", !.status = 0,
                                !.result = Report(Report(@, "Schema created successfully"),
                                                  "Database setup completed successfully!")]]
    /\ UNCHANGED <<tables, seqs, nreq>>

InitSetup ==
    /\ products = <<>>
    /\ Empty
    /\ consumer_purchases = {}
    /\ purchase_items = {}
    /\ purchase_seq = 0
    /\ txn = [t \in Conns |-> Idle]
    /\ nreq = 0

NextSetup ==
    \E t \in Conns :
        \/ SetupBegin(t)
        \/ SetupStatement(t)
        \/ SetupFinish(t)

SpecSetup == InitSetup /\ [][NextSetup]_vars

\* ------------------------------------------------------------ properties
RECURSIVE SumQuantity(_)
SumQuantity(rows) ==
    IF rows = {} THEN 0
    ELSE LET row == CHOOSE x \in rows : TRUE
         IN  row.quantity + SumQuantity(rows \ {row})

MovementsOf(b, movement_type) ==
    {m \in product_movements : m.batch_id = b /\ m.movement_type = movement_type}

Done(t, kind, status) ==
    txn[t].pc = "done" /\ txn[t].kind = kind /\ txn[t].status = status

Finishes(t, kind) ==
    txn[t].kind = kind /\ Active(t) /\ txn'[t].pc = "done"

InsufficientMessage == "Insufficient batch quantity available"

ValidShipRequest(req) ==
    req.quantity > 0 /\ req.price > 0 /\ RetailerOf(req.user) # {}

\* C1: two ship_to_retailer requests on one batch that both read the same
\* quantity_available, each asking for no more than it and together for more, end with
\* exactly one committed and the other failed with the insufficient-quantity error.
C1_ExactlyOneInsufficient ==
    \A t \in Conns : \A u \in Conns \ {t} :
        ( /\ txn[t].pc = "done" /\ txn[t].kind = "ship"
          /\ txn[u].pc = "done" /\ txn[u].kind = "ship"
          /\ ValidShipRequest(txn[t].req) /\ ValidShipRequest(txn[u].req)
          /\ txn[t].req.batch_id = txn[u].req.batch_id
          /\ txn[t].seen = txn[u].seen
          /\ txn[t].req.quantity <= txn[t].seen
          /\ txn[u].req.quantity <= txn[u].seen
          /\ txn[t].req.quantity + txn[u].req.quantity > txn[t].seen
          /\ txn[t].status = 200 )
        => txn[u].status = 500 /\ txn[u].error = InsufficientMessage

\* C2: a shipment about to commit its decrement of quantity_available decrements the
\* value its availability check read: no other shipment changed the batch in between.
C2_CheckAndDecrementIsolated ==
    \A t \in Conns :
        (txn[t].pc = "commit" /\ txn[t].kind = "ship")
        => txn[t].wQa[txn[t].req.batch_id] = txn[t].seen - txn[t].req.quantity

\* C3: every committed batch has quantity_available >= 0.
C3_AvailableNonNegative ==
    \A b \in DOMAIN product_batches : product_batches[b].quantity_available >= 0

\* a shipment lost the race for the last units and the batch is depleted, not negative
C3_Witness ==
    /\ \E b \in DOMAIN product_batches : product_batches[b].quantity_available = 0
    /\ \E t \in Conns : \E u \in Conns \ {t} :
          /\ Done(t, "ship", 200)
          /\ Done(u, "ship", 500)
          /\ ValidShipRequest(txn[u].req)
          /\ txn[u].req.quantity <= txn[u].seen

\* C4: every committed batch has quantity_available <= quantity_produced, whatever
\* quantities (zero and negative too) the ship requests carried.
C4_AvailableAtMostProduced ==
    \A b \in DOMAIN product_batches :
        product_batches[b].quantity_available <= product_batches[b].quantity_produced

\* a shipment of a zero or negative quantity has been answered
C4_Witness ==
    \E t \in Conns :
        /\ txn[t].pc = "done" /\ txn[t].kind = "ship"
        /\ txn[t].req.quantity <= 0
        /\ txn[t].req.price > 0
        /\ txn[t].seen >= 0
        /\ txn[t].req.batch_id \in DOMAIN product_batches

\* C5: for every committed batch, quantity_produced = quantity_available + the
\* quantities of its ship_to_retailer movements, and its manufacture movements minus
\* its ship_to_retailer movements give quantity_available.
C5_Conservation ==
    \A b \in DOMAIN product_batches :
        /\ product_batches[b].quantity_produced =
              product_batches[b].quantity_available
              + SumQuantity(MovementsOf(b, "ship_to_retailer"))
        /\ SumQuantity(MovementsOf(b, "manufacture"))
              - SumQuantity(MovementsOf(b, "ship_to_retailer"))
              = product_batches[b].quantity_available

\* two shipments of one batch are committed
C5_Witness ==
    \E b \in DOMAIN product_batches :
        /\ Cardinality(MovementsOf(b, "ship_to_retailer")) >= 2
        /\ product_batches[b].quantity_available < product_batches[b].quantity_produced

\* the line item the purchase loop is at fails its precondition: quantity <= 0, or
\* more than the quantity_in_stock of the position its UPDATE finds under its key
ItemFailsPrecondition(t) ==
    LET k == ItemKey(t)
        stock == IF k \in DOMAIN txn[t].wInv THEN txn[t].wInv[k].quantity_in_stock
                 ELSE retailer_inventory[k].quantity_in_stock
    IN  \/ CurrentItem(t).quantity <= 0
        \/ k \in DOMAIN retailer_inventory /\ CurrentItem(t).quantity > stock

LineKey(t, line) == <<txn[t].req.retailer_id, line.product_id, line.batch_id>>

C7_PurchaseNeedsPosition ==
    [][\A t \in Conns :
        (Finishes(t, "purchase") /\ txn'[t].status = 200)
        => \A line \in txn[t].wItems :
             /\ LineKey(t, line) \in DOMAIN retailer_inventory
             /\ line.quantity <= retailer_inventory[LineKey(t, line)].quantity_in_stock
      ]_vars

\* C8: every committed Inventory Position has quantity_in_stock >= 0,
\* quantity_reserved >= 0 and quantity_reserved <= quantity_in_stock.
C8_PositionBounds ==
    \A k \in DOMAIN retailer_inventory :
        /\ retailer_inventory[k].quantity_in_stock >= 0
        /\ retailer_inventory[k].quantity_reserved >= 0
        /\ retailer_inventory[k].quantity_reserved <= retailer_inventory[k].quantity_in_stock

\* a shipment to a position and a purchase from it are both committed, and a second
\* purchase of what the first took was refused
C8_Witness ==
    \E t \in Conns : \E u \in Conns \ {t} :
        /\ Done(t, "ship", 200)
        /\ Done(u, "purchase", 200)
        /\ \E l \in purchase_items :
              /\ <<txn[u].req.retailer_id, l.product_id, l.batch_id>> = ShipKey(t)
              /\ ShipKey(t) \in DOMAIN retailer_inventory
              /\ retailer_inventory[ShipKey(t)].quantity_in_stock
                    = 1 + txn[t].req.quantity - l.quantity

\* C9: the COMMIT of a ship_to_retailer of quantity q at price p from batch B by
\* retailer R takes q from B.quantity_available, creates the position (R, product, B)
\* with quantity_in_stock q or adds q to it and sets its price to p, and adds exactly
\* one ship_to_retailer movement from the product's manufacturer to R with q and p.
C9_ShipEffect ==
    [][\A t \in Conns :
        (Finishes(t, "ship") /\ txn'[t].status = 200)
        => LET req == txn[t].req
               b == req.batch_id
               k == ShipKey(t)
           IN  /\ product_batches'[b].quantity_available
                     = product_batches[b].quantity_available - req.quantity
               /\ k \in DOMAIN retailer_inventory'
               /\ retailer_inventory'[k].price = req.price
               /\ retailer_inventory'[k].quantity_in_stock =
                     IF k \in DOMAIN retailer_inventory
                     THEN retailer_inventory[k].quantity_in_stock + req.quantity
                     ELSE req.quantity
               /\ \E m \in product_movements' \ product_movements :
                     /\ product_movements' = product_movements \cup {m}
                     /\ m.movement_type = "ship_to_retailer"
                     /\ m.batch_id = b /\ m.product_id = req.product_id
                     /\ m.from_entity_type = "manufacturer"
                     /\ m.from_entity_id = products[req.product_id].manufacturer_id
                     /\ m.to_entity_type = "retailer" /\ m.to_entity_id = k[1]
                     /\ m.quantity = req.quantity /\ m.unit_price = req.price
      ]_vars

\* a second receipt raised the stock of a position and replaced its price
C9_Witness ==
    \E t \in Conns :
        /\ Done(t, "ship", 200)
        /\ ShipKey(t) \in DOMAIN retailer_inventory
        /\ retailer_inventory[ShipKey(t)].quantity_in_stock > txn[t].req.quantity
        /\ retailer_inventory[ShipKey(t)].price = 2
        /\ txn[t].req.price = 2
        /\ product_batches[txn[t].req.batch_id].quantity_available
              = txn[t].seen - txn[t].req.quantity

\* C10: a ship_to_retailer that asks for more than the quantity_available of its
\* batch is answered 500 with the insufficient-quantity error and changes no table.
C10_InsufficientShipRefused ==
    [][\A t \in Conns :
        ( /\ ~Active(t) /\ txn'[t] # txn[t] /\ txn'[t].kind = "ship"
          /\ RetailerOf(txn'[t].req.user) # {}
          /\ txn'[t].req.batch_id \in DOMAIN product_batches
          /\ product_batches[txn'[t].req.batch_id].product_id = txn'[t].req.product_id
          /\ txn'[t].req.quantity
                > product_batches[txn'[t].req.batch_id].quantity_available )
        => /\ txn'[t].pc = "done" /\ txn'[t].status = 500
           /\ txn'[t].error = InsufficientMessage
           /\ tables' = tables
      ]_vars

\* a shipment of more than the batch held was refused
C10_Witness ==
    \E t \in Conns :
        /\ Done(t, "ship", 500)
        /\ txn[t].error = InsufficientMessage
        /\ txn[t].seen >= 0
        /\ txn[t].req.quantity > txn[t].seen
        /\ product_batches[txn[t].req.batch_id].quantity_available = txn[t].seen

\* C11: a ship_to_retailer with quantity <= 0 never reaches COMMIT: no step of such a
\* request changes a table (the batch, the position, present or not, and the movement
\* log stay as they were) and it is never answered 200.
C11_NonPositiveShipRefused ==
    [][\A t \in Conns :
        (txn'[t] # txn[t] /\ txn'[t].kind = "ship" /\ txn'[t].req.quantity <= 0)
        => /\ tables' = tables
           /\ txn'[t].pc # "commit"
           /\ txn'[t].status # 200
      ]_vars

\* a shipment of quantity 0 to a retailer that holds a position passed the availability
\* check and both UPDATEs, and was rolled back by the movement's CHECK
C11_Witness ==
    \E t \in Conns :
        /\ Done(t, "ship", 500)
        /\ txn[t].req.quantity = 0
        /\ txn[t].error = "violates check constraint"
        /\ txn[t].seen > 0
        /\ ShipKey(t) \in DOMAIN retailer_inventory
        /\ retailer_inventory[ShipKey(t)].price # txn[t].req.price
        /\ product_batches[txn[t].req.batch_id].quantity_available = txn[t].seen

\* the batch's expiry_date is already in the past
Expired(row) == row.expiry_date < Today

\* C12: a ship_to_retailer against a batch whose expiry_date is in the past fails and
\* changes no table.
C12_ExpiredShipRefused ==
    [][\A t \in Conns :
        ( /\ Finishes(t, "ship")
          /\ txn[t].req.batch_id \in DOMAIN product_batches
          /\ Expired(product_batches[txn[t].req.batch_id]) )
        => /\ txn'[t].status = 500
           /\ tables' = tables
      ]_vars

\* C13: the COMMIT of a create-batch with quantity_produced = n adds one batch with
\* quantity_available = n and exactly one movement, of kind manufacture, for that batch,
\* with quantity n, from and to the product's manufacturer; and in every state each
\* batch has exactly one manufacture movement, whose quantity is its quantity_produced.
C13_ManufactureEffect ==
    /\ [](\A b \in DOMAIN product_batches :
            /\ Cardinality(MovementsOf(b, "manufacture")) = 1
            /\ \A m \in MovementsOf(b, "manufacture") :
                  m.quantity = product_batches[b].quantity_produced)
    /\ [][\A t \in Conns :
            (Finishes(t, "batch") /\ txn'[t].status = 200)
            => LET req == txn[t].req
                   owner == products[req.productId].manufacturer_id
               IN  \E b \in DOMAIN product_batches' \ DOMAIN product_batches :
                     /\ DOMAIN product_batches' = DOMAIN product_batches \cup {b}
                     /\ product_batches'[b].product_id = req.productId
                     /\ product_batches'[b].quantity_produced = req.quantity_produced
                     /\ product_batches'[b].quantity_available = req.quantity_produced
                     /\ \E m \in product_movements' \ product_movements :
                           /\ product_movements' = product_movements \cup {m}
                           /\ m.movement_type = "manufacture"
                           /\ m.batch_id = b /\ m.product_id = req.productId
                           /\ m.quantity = req.quantity_produced
                           /\ m.from_entity_type = "manufacturer"
                           /\ m.from_entity_id = owner
                           /\ m.to_entity_type = "manufacturer"
                           /\ m.to_entity_id = owner
      ]_vars

\* a create-batch is committed: its batch is whole and its genesis movement is the log
C13_Witness ==
    \E t \in Conns :
        /\ Done(t, "batch", 200)
        /\ \E b \in DOMAIN product_batches :
              /\ product_batches[b].batch_number = txn[t].req.batch_number
              /\ product_batches[b].quantity_available = txn[t].req.quantity_produced
              /\ \E m \in product_movements :
                    /\ product_movements = {m}
                    /\ m.movement_type = "manufacture"
                    /\ m.batch_id = b
                    /\ m.created_at = txn[t].start

\* C14: a create-batch with quantity_produced <= 0, or with an expiry_date that is not
\* later than its manufacture_date, is answered with an error by its INSERT and stores
\* neither a batch nor a movement; no create-batch that ends in an error changes a table.
C14_InvalidBatchRefused ==
    [][\A t \in Conns :
        /\ ( /\ txn[t].pc = "cb_insert" /\ txn'[t] # txn[t]
             /\ \/ txn[t].req.quantity_produced <= 0
                \/ txn[t].req.expiry_date <= txn[t].req.manufacture_date )
           => /\ txn'[t].pc = "done" /\ txn'[t].status = 500
              /\ txn'[t].error = "Failed to create batch"
              /\ tables' = tables
        /\ (Finishes(t, "batch") /\ txn'[t].status # 200) => tables' = tables
      ]_vars

\* a create-batch of a positive quantity whose expiry_date equals its manufacture_date
\* was refused and the ledger is still empty
C14_Witness ==
    \E t \in Conns :
        /\ Done(t, "batch", 500)
        /\ txn[t].req.quantity_produced > 0
        /\ txn[t].req.expiry_date = txn[t].req.manufacture_date
        /\ txn[t].req.productId \in DOMAIN products
        /\ product_batches = <<>>
        /\ product_movements = {}

\* C15: a create-batch for a product that does not exist, or whose manufacturer is not
\* the one of the caller, is refused at once and creates no batch and no movement.
C15_ForeignProductRefused ==
    [][\A t \in Conns :
        ( /\ txn'[t] # txn[t] /\ txn'[t].kind = "batch"
          /\ \/ txn'[t].req.productId \notin DOMAIN products
             \/ \A m \in manufacturers :
                  m.wp_user_id = txn'[t].req.user
                  => m.id # products[txn'[t].req.productId].manufacturer_id )
        => /\ txn'[t].pc = "done" /\ txn'[t].status = 403
           /\ tables' = tables
           /\ seqs' = seqs
      ]_vars

\* with a batch of product 1 in the ledger, a manufacturer that does not own product 1
\* asked for another batch of it and was refused
C15_Witness ==
    \E t \in Conns :
        /\ Done(t, "batch", 403)
        /\ txn[t].req.user = 102
        /\ txn[t].req.productId = 1
        /\ txn[t].req.quantity_produced > 0
        /\ txn[t].req.expiry_date > txn[t].req.manufacture_date
        /\ DOMAIN product_batches = {1}
        /\ Cardinality(MovementsOf(1, "manufacture")) = 1

\* C16: the movement log is append-only: every movement of a state is in every later
\* state, with the same field values.
C16_MovementsAppendOnly ==
    [][product_movements \subseteq product_movements']_vars

\* the log grew by a shipment and then by a sale, next to the rows it had
C16_Witness ==
    /\ {SeedManufacture, SeedShipment} \subseteq product_movements
    /\ MovementsOf(1, "sale_to_consumer") # {}
    /\ \E m \in MovementsOf(1, "ship_to_retailer") : m.id > 2

\* C17: quantity_produced is write-once: no step, of a request that commits or of one
\* that is rolled back, removes a batch or changes its quantity_produced.
C17_ProducedWriteOnce ==
    [][\A b \in DOMAIN product_batches :
        /\ b \in DOMAIN product_batches'
        /\ product_batches'[b].quantity_produced = product_batches[b].quantity_produced
      ]_vars

\* a batch was created and a shipment then took part of it
C17_Witness ==
    \E t \in Conns : \E u \in Conns \ {t} :
        /\ Done(t, "batch", 200)
        /\ Done(u, "ship", 200)
        /\ txn[u].start > txn[t].start
        /\ product_batches[txn[u].req.batch_id].quantity_available
              < product_batches[txn[u].req.batch_id].quantity_produced
        /\ product_batches[txn[u].req.batch_id].quantity_produced
              = txn[t].req.quantity_produced

RECURSIVE SumTotalPrice(_)
SumTotalPrice(rows) ==
    IF rows = {} THEN 0
    ELSE LET row == CHOOSE x \in rows : TRUE
         IN  row.total_price + SumTotalPrice(rows \ {row})

\* the lines of connection t's purchase that sell from the position k
LinesOf(t, k) == {line \in txn[t].wItems : LineKey(t, line) = k}

\* the COMMIT of a purchase stores one purchase_items row and one sale_to_consumer
\* movement, from the retailer to the consumer, for each line item
PurchaseRecordsLines(t) ==
    LET lines == txn[t].wItems
        sales == product_movements' \ product_movements
    IN  /\ purchase_items' \ purchase_items = lines
        /\ Cardinality(lines) = txn[t].idx - 1
        /\ Cardinality(sales) = Cardinality(lines)
        /\ \A m \in sales :
              /\ m.movement_type = "sale_to_consumer"
              /\ m.from_entity_type = "retailer"
              /\ m.from_entity_id = txn[t].req.retailer_id
              /\ m.to_entity_type = "consumer"
              /\ m.to_entity_id = txn[t].req.wp_user_id
        /\ \A line \in lines :
              Cardinality({m \in sales : /\ m.product_id = line.product_id
                                         /\ m.batch_id = line.batch_id
                                         /\ m.quantity = line.quantity
                                         /\ m.unit_price = line.unit_price})
                 >= Cardinality({l \in lines : /\ l.product_id = line.product_id
                                               /\ l.batch_id = line.batch_id
                                               /\ l.quantity = line.quantity
                                               /\ l.unit_price = line.unit_price})

\* the COMMIT of a purchase stores one purchase, whose total_amount is the sum of
\* quantity x unit_price over its lines and the sum of their total_price
PurchaseRecordsTotal(t) ==
    \E p \in consumer_purchases' \ consumer_purchases :
        /\ consumer_purchases' = consumer_purchases \cup {p}
        /\ p.retailer_id = txn[t].req.retailer_id
        /\ p.total_amount = SumTotalPrice(txn[t].wItems)
        /\ \A line \in txn[t].wItems : line.total_price = line.quantity * line.unit_price

\* the COMMIT of a purchase takes each line's quantity from the stock of its position
PurchaseTakesStock(t) ==
    \A line \in txn[t].wItems :
        LET k == LineKey(t, line)
        IN  /\ k \in DOMAIN retailer_inventory
            /\ k \in DOMAIN retailer_inventory'
            /\ retailer_inventory'[k].quantity_in_stock =
                  retailer_inventory[k].quantity_in_stock - SumQuantity(LinesOf(t, k))

\* C18: the COMMIT of a purchase decrements, for each line item, the quantity_in_stock
\* of the position (retailer, product, batch) by the item's quantity, adds one
\* sale_to_consumer movement and one purchase_items row per line item, and adds one
\* purchase whose total_amount is the sum of quantity x unit_price over the items.
C18_PurchaseEffect ==
    [][\A t \in Conns :
        (Finishes(t, "purchase") /\ txn'[t].status = 200)
        => /\ PurchaseTakesStock(t)
           /\ PurchaseRecordsLines(t)
           /\ PurchaseRecordsTotal(t)
      ]_vars

\* C19: the movement history a trace returns is in ascending order of timestamp, and
\* records with equal timestamps are in the order of their insertion (ascending id).
C19_TraceOrderDeterministic ==
    \A t \in Conns :
        Done(t, "trace", 200)
        => \A i \in DOMAIN txn[t].result : \A j \in DOMAIN txn[t].result :
             i < j => \/ txn[t].result[i].created_at < txn[t].result[j].created_at
                      \/ /\ txn[t].result[i].created_at = txn[t].result[j].created_at
                         /\ txn[t].result[i].id < txn[t].result[j].id

\* the movements of batch b among rows
OfBatch(rows, b) == {m \in rows : m.batch_id = b}

\* C20: for one batch, every order in which a trace may present its movements agrees
\* with the order of the COMMITs: the movements a COMMIT adds come after all those
\* committed before it (so no sale_to_consumer precedes the ship_to_retailer that
\* stocked its position), and the manufacture movement is the first.
C20_TraceFollowsCommitOrder ==
    [][\A b \in DOMAIN product_batches' :
        \A history \in OrderByCreatedAt(OfBatch(product_movements', b)) :
            /\ history # <<>> => history[1].movement_type = "manufacture"
            /\ \A i \in DOMAIN history : \A j \in DOMAIN history :
                  ( /\ history[i] \in product_movements
                    /\ history[j] \notin product_movements )
                  => i < j
      ]_vars

\* the movement a row of a history shows
MovementOfRow(row) == [f \in DOMAIN row \ {"from_entity", "to_entity"} |-> row[f]]

PartyExists(entity_type, entity_id) ==
    \/ entity_type = "manufacturer" /\ \E m \in manufacturers : m.id = entity_id
    \/ entity_type = "retailer" /\ \E r \in retailers : r.id = entity_id
    \/ entity_type = "consumer" /\ (entity_id = 0 \/ entity_id \in DOMAIN wp_user_mapping)

\* C22: every committed movement references a batch and a product that exist, and
\* its source and destination parties are existing entities.
C22_ReferentialClosure ==
    \A m \in product_movements :
        /\ m.batch_id \in DOMAIN product_batches
        /\ m.product_id \in DOMAIN products
        /\ PartyExists(m.from_entity_type, m.from_entity_id)
        /\ PartyExists(m.to_entity_type, m.to_entity_id)

\* C23: there is one position per (retailer, product, batch): the COMMIT of a shipment
\* adds its quantity to the position of its key as it is committed at that moment, a
\* concurrent first receipt included, or creates that one position, and touches no
\* other position.
C23_OnePositionPerKey ==
    [][\A t \in Conns :
        (Finishes(t, "ship") /\ txn'[t].status = 200)
        => LET k == ShipKey(t)
               before == IF k \in DOMAIN retailer_inventory
                         THEN retailer_inventory[k].quantity_in_stock ELSE 0
           IN  /\ DOMAIN retailer_inventory' = DOMAIN retailer_inventory \cup {k}
               /\ retailer_inventory'[k].quantity_in_stock = before + txn[t].req.quantity
               /\ \A x \in DOMAIN retailer_inventory \ {k} :
                     retailer_inventory'[x] = retailer_inventory[x]
      ]_vars

\* two shipments that both read the batch before either committed were each the first
\* receipt of one key; the position holds both quantities
C23_Witness ==
    \E t \in Conns : \E u \in Conns \ {t} :
        /\ Done(t, "ship", 200)
        /\ Done(u, "ship", 200)
        /\ ShipKey(t) = ShipKey(u)
        /\ txn[t].seen = txn[u].seen
        /\ SeedShipment \notin product_movements
        /\ ShipKey(t) \in DOMAIN retailer_inventory
        /\ retailer_inventory[ShipKey(t)].quantity_in_stock
              = txn[t].req.quantity + txn[u].req.quantity

\* C24: no step increases the quantity_available of a batch: it is non-increasing from
\* the batch's creation on, and a depleted batch stays depleted.
C24_AvailableNonIncreasing ==
    [][\A b \in DOMAIN product_batches :
        /\ b \in DOMAIN product_batches'
        /\ product_batches'[b].quantity_available <= product_batches[b].quantity_available
      ]_vars

\* a batch was shipped out completely and a further shipment found it depleted
C24_Witness ==
    \E t \in Conns : \E u \in Conns \ {t} :
        /\ Done(t, "ship", 200)
        /\ Done(u, "ship", 500)
        /\ txn[u].req.batch_id = txn[t].req.batch_id
        /\ txn[u].seen = 0
        /\ txn[u].req.quantity > 0
        /\ product_batches[txn[t].req.batch_id].quantity_available = 0

\* C25: a request that fails because its transaction was the victim of a lock cycle is
\* answered differently from a request of the same handler that fails on invalid input
\* (a violated CHECK) or on insufficient quantity.
C25_ContentionDistinguishable ==
    [][\A t \in Conns :
        ( /\ \E u \in Conns \ {t} : WaitsFor(t, u) /\ WaitsFor(u, t)
          /\ txn'[t].pc = "done" )
        => /\ txn'[t].status # 200
           /\ <<txn'[t].status, txn'[t].error>>
                 # <<500, ErrorResponse(txn[t].kind, "violates check constraint")>>
           /\ <<txn'[t].status, txn'[t].error>>
                 # <<500, ErrorResponse(txn[t].kind, InsufficientMessage)>>
      ]_vars

\* C26: a ship_to_retailer that names a batch that does not exist, or a batch of
\* another product, fails without changing a table, with an answer that is not the
\* one given for an insufficient quantity.
C26_MissingBatchNotFound ==
    [][\A t \in Conns :
        ( /\ ~Active(t) /\ txn'[t] # txn[t] /\ txn'[t].kind = "ship"
          /\ RetailerOf(txn'[t].req.user) # {}
          /\ \/ txn'[t].req.batch_id \notin DOMAIN product_batches
             \/ product_batches[txn'[t].req.batch_id].product_id # txn'[t].req.product_id )
        => /\ txn'[t].pc = "done" /\ txn'[t].status # 200
           /\ tables' = tables
           /\ <<txn'[t].status, txn'[t].error>> # <<500, InsufficientMessage>>
      ]_vars

\* the party (entity_type, entity_id) is a manufacturer or a retailer whose row is gone
PartyRowMissing(entity_type, entity_id) ==
    \/ entity_type = "manufacturer" /\ \A m \in manufacturers : m.id # entity_id
    \/ entity_type = "retailer" /\ \A r \in retailers : r.id # entity_id

\* a label that stands for the party without its name: not NULL, and showing the id
GenericLabel(label, entity_id) == label # NullName /\ label[2] = entity_id

\* C27: a trace returns every movement of the batch, also one whose source or
\* destination has no manufacturer or retailer row, and shows for such a party a generic
\* label with its id in place of the name.
C27_MissingPartyLabelled ==
    [][\A t \in Conns :
        (txn'[t] # txn[t] /\ txn'[t].kind = "trace" /\ txn'[t].status = 200)
        => /\ \A b \in DOMAIN product_batches :
                product_batches[b].batch_number = txn'[t].req.batchNumber
                => \A pm \in OfBatch(product_movements, b) :
                     \E row \in Range(txn'[t].result) : MovementOfRow(row) = pm
           /\ \A row \in Range(txn'[t].result) :
                /\ PartyRowMissing(row.from_entity_type, row.from_entity_id)
                   => GenericLabel(row.from_entity, row.from_entity_id)
                /\ PartyRowMissing(row.to_entity_type, row.to_entity_id)
                   => GenericLabel(row.to_entity, row.to_entity_id)
      ]_vars

\* the token verifies against the shared secret and its user_id has a wp_user_mapping row
ValidToken(token) ==
    /\ token # NoToken
    /\ token.signed_with = "WP_JWT_SECRET"
    /\ token.user_id \in DOMAIN wp_user_mapping

\* C28: a request to a guarded endpoint (create-batch, inventory/add) gets to its
\* handler only with a token that verifies against the shared secret and whose user_id
\* has a wp_user_mapping row, and acts as that user; with any other token it is
\* answered 401 and changes nothing.
C28_GuardedByToken ==
    [][\A t \in Conns :
        (~Active(t) /\ txn'[t] # txn[t])
        => /\ txn'[t].kind \in {"batch", "ship"}
              => /\ ValidToken(txn'[t].req.token)
                 /\ txn'[t].req.user = txn'[t].req.token.user_id
           /\ (txn'[t].kind = "denied" /\ ~ValidToken(txn'[t].req.token))
              => /\ txn'[t].status = 401
                 /\ tables' = tables
                 /\ seqs' = seqs
           /\ (txn'[t].kind = "denied" /\ txn'[t].status = 401)
              => ~ValidToken(txn'[t].req.token)
      ]_vars

\* a token signed with another key was turned away with 401 while the request of a
\* verified retailer went through
C28_Witness ==
    \E t \in Conns : \E u \in Conns \ {t} :
        /\ Done(t, "denied", 401)
        /\ txn[t].error = "Invalid token"
        /\ txn[t].req.endpoint = "inventory"
        /\ Done(u, "ship", 200)
        /\ txn[u].req.user = txn[t].req.token.user_id

\* C29: POST /api/purchase is an authenticated endpoint: no step of a purchase request
\* whose token the middleware would turn away changes a table.
C29_PurchaseNeedsToken ==
    [][\A t \in Conns :
        (Active(t) /\ txn[t].kind = "purchase" /\ txn'[t] # txn[t]
           /\ authenticateWPUser(txn[t].req.token).status # 200)
        => tables' = tables
      ]_vars

\* what the movements say retailer r received of batch b and sold of it
ReceivedBy(r, b) ==
    SumQuantity({m \in MovementsOf(b, "ship_to_retailer") : m.to_entity_id = r})

SoldBy(r, b) ==
    SumQuantity({m \in MovementsOf(b, "sale_to_consumer") : m.from_entity_id = r})

\* quantity_in_stock of r's position for batch b, 0 when r has none
StockOf(r, b) ==
    LET keys == {k \in DOMAIN retailer_inventory : k[1] = r /\ k[3] = b}
    IN  IF keys = {} THEN 0
        ELSE retailer_inventory[CHOOSE k \in keys : TRUE].quantity_in_stock

\* C30: in every committed state, for every retailer R and batch B, the quantities of
\* the ship_to_retailer movements of B to R minus those of the sale_to_consumer
\* movements of B from R equal the quantity_in_stock of R's position for B (0 when R
\* has none), so recorded sales never exceed recorded receipts.
C30_InventoryReconciles ==
    \A r \in RetailerIds : \A b \in RequestBatchIds :
        /\ ReceivedBy(r, b) - SoldBy(r, b) = StockOf(r, b)
        /\ SoldBy(r, b) <= ReceivedBy(r, b)

\* C31: a connection that is back in the pool (its handler has responded and released
\* it) has no transaction open: every path ended it with COMMIT or ROLLBACK.
C31_ReleasedWithoutTransaction ==
    \A t \in Conns : ~Active(t) => ~txn[t].open

MutatingKinds == {"batch", "ship", "purchase"}

\* C32: a create-batch, ship or purchase request that is answered with an error leaves
\* no trace: the step that answers the error changes no table, and no earlier step of
\* the request did, since a request changes the tables only in the step that answers 200.
C32_FailedLeavesNoTrace ==
    [][\A t \in Conns :
        /\ (txn'[t] # txn[t] /\ txn'[t].pc = "done" /\ txn'[t].kind \in MutatingKinds
              /\ txn'[t].status # 200)
           => tables' = tables
        /\ (Active(t) /\ txn'[t] # txn[t] /\ txn[t].kind \in MutatingKinds
              /\ tables' # tables)
           => (txn'[t].pc = "done" /\ txn'[t].status = 200)
      ]_vars

\* a purchase failed at its second item, after the statements of its first item went
\* through, and nothing of it is in the tables
C32_Witness ==
    \E t \in Conns :
        /\ Done(t, "purchase", 500)
        /\ txn[t].idx = 2
        /\ consumer_purchases = {}
        /\ purchase_items = {}
        /\ \A m \in product_movements : m.movement_type # "sale_to_consumer"

\* C33: the product_id of every committed movement is the product its batch belongs
\* to, whichever handler wrote it.
C33_MovementProductOfBatch ==
    \A m \in product_movements :
        /\ m.batch_id \in DOMAIN product_batches
        /\ product_batches[m.batch_id].product_id = m.product_id

\* C34: the batch number, the reference trace accepts, identifies at most one batch
\* in every reachable state.
C34_BatchNumberIdentifiesOne ==
    \A a \in DOMAIN product_batches : \A b \in DOMAIN product_batches :
        product_batches[a].batch_number = product_batches[b].batch_number => a = b

\* the orders in which the committed purchases may have been served one after the other
SerialOrders ==
    {order \in [1..Cardinality(consumer_purchases) -> consumer_purchases] :
        \A i \in DOMAIN order : \A j \in DOMAIN order : order[i] = order[j] => i = j}

RECURSIVE SerialItems(_, _, _)
\* the item loop of purchase p from line i on, run alone on the positions outcome.inv
SerialItems(outcome, p, i) ==
    LET lines == {l \in purchase_items : l.purchase_id = p.id /\ l.line = i}
    IN  IF lines = {} \/ ~outcome.ok THEN outcome
        ELSE LET l == CHOOSE x \in lines : TRUE
                 k == <<p.retailer_id, l.product_id, l.batch_id>>
                 row == SellFromStock(outcome.inv[k], l.quantity)
             IN  IF k \notin DOMAIN outcome.inv THEN SerialItems(outcome, p, i + 1)
                 ELSE IF ~InventoryRowOk(row) THEN [ok |-> FALSE, inv |-> outcome.inv]
                 ELSE SerialItems([ok |-> TRUE,
                                   inv |-> [outcome.inv EXCEPT ![k] = row]], p, i + 1)

RECURSIVE SerialPurchases(_, _, _)
\* the purchases order[n..] served one after the other
SerialPurchases(outcome, order, n) ==
    IF n > Len(order) THEN outcome
    ELSE SerialPurchases(SerialItems(outcome, order[n], 1), order, n + 1)

\* the positions are those some serial execution of the committed purchases leaves,
\* and every committed line has its sale movement
SerialOutcome ==
    /\ \E order \in SerialOrders :
          LET outcome == SerialPurchases([ok |-> TRUE, inv |-> TwoLotsInventory], order, 1)
          IN  outcome.ok /\ outcome.inv = retailer_inventory
    /\ Cardinality(MovementsOf(1, "sale_to_consumer") \cup MovementsOf(2, "sale_to_consumer"))
          = Cardinality(purchase_items)
    /\ \A l \in purchase_items : \E p \in consumer_purchases : p.id = l.purchase_id

\* C35: concurrent multi-item purchases on the same two positions, in opposite order
\* too, all terminate (every request that has begun is eventually answered and its
\* connection released, its transaction committed or rolled back), and the committed
\* state is that of some serial execution of the committed purchases.
C35_OppositePurchasesTerminate ==
    /\ \A t \in Conns : Active(t) ~> (~Active(t) /\ ~txn[t].open)
    /\ []SerialOutcome

\* two purchases hold one position each and wait for the other's
C35_Witness ==
    \E t \in Conns : \E u \in Conns \ {t} :
        /\ txn[t].kind = "purchase" /\ txn[u].kind = "purchase"
        /\ txn[t].idx = 2 /\ txn[u].idx = 2
        /\ WaitsFor(t, u) /\ WaitsFor(u, t)

\* C36: the COMMIT of a shipment changes the quantity_available of the batch it names
\* and nothing else of product_batches, the quantity_in_stock and price of the position
\* (retailer of the caller, product, batch) and nothing else of retailer_inventory, adds
\* to product_movements without touching what was there, and leaves products and
\* purchases alone.
C36_ShipFrame ==
    [][\A t \in Conns :
        (Finishes(t, "ship") /\ txn'[t].status = 200)
        => LET req == txn[t].req
               k == <<CHOOSE r \in RetailerOf(req.token.user_id) : TRUE,
                      req.product_id, req.batch_id>>
           IN  /\ RetailerOf(req.token.user_id) # {}
               /\ DOMAIN product_batches' = DOMAIN product_batches
               /\ \A b \in DOMAIN product_batches :
                     IF b = req.batch_id
                     THEN [product_batches'[b] EXCEPT !.quantity_available =
                              product_batches[b].quantity_available] = product_batches[b]
                     ELSE product_batches'[b] = product_batches[b]
               /\ DOMAIN retailer_inventory' = DOMAIN retailer_inventory \cup {k}
               /\ \A x \in DOMAIN retailer_inventory :
                     IF x = k
                     THEN retailer_inventory'[x].quantity_reserved
                             = retailer_inventory[x].quantity_reserved
                     ELSE retailer_inventory'[x] = retailer_inventory[x]
               /\ product_movements \subseteq product_movements'
               /\ UNCHANGED <<products, consumer_purchases, purchase_items>>
      ]_vars

\* retailer 2 received a shipment while retailer 1 holds positions of both batches
C36_Witness ==
    \E t \in Conns :
        /\ Done(t, "ship", 200)
        /\ txn[t].req.token.user_id = 202
        /\ <<2, 1, txn[t].req.batch_id>> \in DOMAIN retailer_inventory
        /\ <<1, 1, 1>> \in DOMAIN retailer_inventory
        /\ <<1, 1, 2>> \in DOMAIN retailer_inventory

\* C37: every committed purchase has at least one purchase_items row, and a
\* sale_to_consumer movement of its retailer for the batch and quantity of that row;
\* a request with an empty list of items creates no purchase.
C37_PurchaseHasItems ==
    \A p \in consumer_purchases :
        \E line \in purchase_items :
            /\ line.purchase_id = p.id
            /\ \E m \in MovementsOf(line.batch_id, "sale_to_consumer") :
                  /\ m.from_entity_id = p.retailer_id
                  /\ m.product_id = line.product_id
                  /\ m.quantity = line.quantity

\* the products created through POST /api/products: all but the seeded product 1
Created == DOMAIN products \ {1}

\* C38: a product created through POST /api/products that has a batch with positive
\* quantity_available and an expiry date in the future is in the retailer listing.
C38_CreatedProductListed ==
    \A p \in Created : JoinedBatches(p) # {} => p \in available_products

ReportsSuccess(log) ==
    \/ "Schema created successfully" \in Range(log)
    \/ "Database setup completed successfully!" \in Range(log)

\* C39: a run of setupDatabase that has ended reports that the schema was created, or
\* that setup completed successfully, only if every statement of the schema went
\* through or failed with 'already exists'.
C39_SuccessOnlyIfAllExecuted ==
    \A t \in Conns :
        (txn[t].kind = "setup" /\ txn[t].pc = "done" /\ ReportsSuccess(txn[t].result))
        => \A i \in DOMAIN txn[t].req.statements :
              txn[t].req.statements[i] \in {"ok", "already exists"}

=============================================================================
